---------------------------- MODULE Spec2Model ----------------------------
(* A state-machine model of src/parser.py: the SuperJob vacancy parser.    *)
(* One run of main() is a walk through its nine try/except stages; the     *)
(* database tables outlive the run, and the batch job may be started again.*)
EXTENDS Integers, Sequences, FiniteSets

(***************************************************************************)
(* Values.  A nullable value is a sequence of length 0 (None / NULL / NaN) *)
(* or 1.  A string is a sequence of characters; a character is a number,   *)
(* 0 being the space.  All strings of the model are lower-case letters and *)
(* spaces, on which rapidfuzz's default processing changes nothing.        *)
(***************************************************************************)
None == <<>>

Some(v) == <<v>>

IsNull(x) == x = None

(* ------------------------------ bounds --------------------------------- *)
\* how many times the batch job is started
MaxRuns == 2

\* how many listings the five workers return together in one run of the
\* specifications Spec and SpecPay
MaxListings == 1

\* the same for the one-run specifications SpecDedup and SpecMatch
MaxBatch == 2

(* ------------------------- program constants --------------------------- *)
SIMILARITY_LEVEL_OKPDTR == 75

\* ThreadPoolExecutor(max_workers=4)
MaxWorkers == 4

\* range(5): the page indices 0..4
NumPages == 5

Pages == 0 .. (NumPages - 1)

\* the value of vacs_df['id_mrigo']
ID_MRIGO == 23

(* ------------------------------ helpers -------------------------------- *)
RECURSIVE SeqSum(_)
SeqSum(s) == IF s = <<>> THEN 0 ELSE Head(s) + SeqSum(Tail(s))

RECURSIVE Flatten(_)
\* list.extend over a sequence of lists
Flatten(ss) == IF ss = <<>> THEN <<>> ELSE Head(ss) \o Flatten(Tail(ss))

Range(s) == {s[i] : i \in 1 .. Len(s)}

Perms(S) == {f \in [1 .. Cardinality(S) -> S] : Range(f) = S}

Max2(a, b) == IF a >= b THEN a ELSE b

(* --------------------- rapidfuzz.fuzz.token_set_ratio ------------------ *)
RECURSIVE SplitFrom(_, _, _)
\* str.split(): the maximal runs of non-space characters, in order
SplitFrom(s, i, cur) ==
  IF i > Len(s)
    THEN (IF cur = <<>> THEN <<>> ELSE <<cur>>)
    ELSE IF s[i] = 0
      THEN (IF cur = <<>> THEN SplitFrom(s, i + 1, <<>>)
                          ELSE <<cur>> \o SplitFrom(s, i + 1, <<>>))
      ELSE SplitFrom(s, i + 1, Append(cur, s[i]))

Split(s) == SplitFrom(s, 1, <<>>)

RECURSIVE StrLess(_, _)
\* the lexicographic order sorted() uses on tokens
StrLess(a, b) ==
  IF b = <<>> THEN FALSE
  ELSE IF a = <<>> THEN TRUE
  ELSE IF Head(a) # Head(b) THEN Head(a) < Head(b)
  ELSE StrLess(Tail(a), Tail(b))

RECURSIVE Sorted(_)
\* sorted(tokens): the tokens of a set in increasing order
Sorted(S) ==
  IF S = {} THEN <<>>
  ELSE LET m == CHOOSE x \in S : \A y \in S : y = x \/ StrLess(x, y)
       IN <<m>> \o Sorted(S \ {m})

RECURSIVE Join(_)
\* " ".join(tokens)
Join(ts) ==
  IF ts = <<>> THEN <<>>
  ELSE IF Len(ts) = 1 THEN Head(ts)
  ELSE Head(ts) \o <<0>> \o Join(Tail(ts))

RECURSIVE LCS(_, _)
\* length of a longest common subsequence
LCS(a, b) ==
  IF a = <<>> \/ b = <<>> THEN 0
  ELSE IF Head(a) = Head(b) THEN 1 + LCS(Tail(a), Tail(b))
  ELSE Max2(LCS(Tail(a), b), LCS(a, Tail(b)))

\* Indel.distance: insertions and deletions only
IndelDistance(a, b) == Len(a) + Len(b) - 2 * LCS(a, b)

(* A score 100 - 100 * dist / lensum is kept exact as the pair              *)
(* <<lensum - dist, lensum>>: the score is 100 * num / den.                 *)
NormDistance(dist, lensum) ==
  IF lensum = 0 THEN <<1, 1>> ELSE <<lensum - dist, lensum>>

ScoreGE(x, y) == x[1] * y[2] >= y[1] * x[2]

ScoreGT(x, y) == x[1] * y[2] > y[1] * x[2]

ScoreMax(x, y) == IF ScoreGE(x, y) THEN x ELSE y

\* score >= score_cutoff
AtLeastCutoffStrict(score, cutoff) == 100 * score[1] > cutoff * score[2]
AtLeastCutoff(score, cutoff) == 100 * score[1] >= cutoff * score[2]

token_set_ratio(s1, s2) ==
  LET tokens_a == Range(Split(s1))
      tokens_b == Range(Split(s2))
      intersect == tokens_a \cap tokens_b
      diff_ab == tokens_a \ tokens_b
      diff_ba == tokens_b \ tokens_a
      diff_ab_joined == Join(Sorted(diff_ab))
      diff_ba_joined == Join(Sorted(diff_ba))
      ab_len == Len(diff_ab_joined)
      ba_len == Len(diff_ba_joined)
      sect_len == Len(Join(Sorted(intersect)))
      sep == IF sect_len # 0 THEN 1 ELSE 0
      sect_ab_len == sect_len + sep + ab_len
      sect_ba_len == sect_len + sep + ba_len
      result == NormDistance(IndelDistance(diff_ab_joined, diff_ba_joined),
                             sect_ab_len + sect_ba_len)
      sect_ab_ratio == NormDistance(sep + ab_len, sect_len + sect_ab_len)
      sect_ba_ratio == NormDistance(sep + ba_len, sect_len + sect_ba_len)
  IN IF tokens_a = {} \/ tokens_b = {} THEN <<0, 1>>
     ELSE IF intersect # {} /\ (diff_ab = {} \/ diff_ba = {}) THEN <<1, 1>>
     ELSE IF sect_len = 0 THEN result
     ELSE ScoreMax(result, ScoreMax(sect_ab_ratio, sect_ba_ratio))

RECURSIVE ExtractFrom(_, _, _, _, _)
\* the loop of process.extractOne: the first choice with the highest score
\* among those reaching the cutoff; best is None or <<choice, score>>
ExtractFrom(query, choices, i, cutoff, best) ==
  IF i > Len(choices) THEN best
  ELSE LET score == token_set_ratio(query, choices[i])
           better == /\ AtLeastCutoff(score, cutoff)
                     /\ (best = None \/ ScoreGT(score, best[2]))
       IN ExtractFrom(query, choices, i + 1, cutoff,
                      IF better THEN <<choices[i], score>> ELSE best)

extractOne(query, choices, cutoff) == ExtractFrom(query, choices, 1, cutoff, None)

(* ------------------------------ the data ------------------------------- *)
\* strings are written by letter number: a = 1, b = 2, c = 3, d = 4, e = 5, f = 6
\* data.okpdtr: the reference classification table (id, name, code)
okpdtr ==
  { [id |-> 10, name |-> <<1, 2, 3, 4>>, code |-> "1"],
    [id |-> 20, name |-> <<1, 2, 3, 6>>, code |-> "2"],
    [id |-> 30, name |-> <<5, 5>>,         code |-> "_"] }

\* profession strings the upstream API may send
Professions == { <<1, 2, 3, 4>>, <<1, 2, 3, 5>>, <<5, 5>> }

\* the client sub-object of a listing
Client(id_client, title) ==
  IF id_client = 0 THEN [id |-> None, title |-> title]
                   ELSE [id |-> Some(id_client), title |-> title]

\* raw listings: the records of response.json()['objects']
RawListings(ids, clients, titles, profs, pays) ==
  { [id |-> i, id_client |-> c, client |-> Client(c, t), profession |-> p,
     payment_from |-> pf, payment_to |-> pt] :
       i \in ids, c \in clients, t \in titles, p \in profs,
       pf \in pays, pt \in pays }

\* the listings of the multi-run specification
Listings ==
  RawListings({Some(1), Some(2)}, {7}, {"t1", "t2"},
              {<<1, 2, 3, 4>>, <<5, 5>>}, {Some(0)})
  \cup RawListings({Some(1)}, {0}, {"t1"}, {<<5, 5>>}, {Some(0)})

\* listings that share ids, some of no organization, some without id
ListingsDedup ==
  RawListings({Some(1), Some(2), None}, {0, 7}, {"t1"},
              {<<1, 2, 3, 4>>, <<5, 5>>}, {Some(0)})

\* listings that differ in their payment bounds
ListingsPay ==
  RawListings({Some(1)}, {0, 7}, {"t1"}, {<<1, 2, 3, 4>>},
              {None, Some(0), Some(1), Some(2)})

\* listings that differ in their profession
ListingsMatch ==
  RawListings({Some(1), Some(2)}, {7}, {"t1"}, Professions, {Some(0)})
  \cup RawListings({Some(1)}, {0}, {"t1"}, {<<5, 5>>}, {Some(0)})

RECURSIVE SeqsUpTo(_, _)
\* the sequences over S of length at most n
SeqsUpTo(S, n) ==
  IF n = 0 THEN {<<>>}
  ELSE LET shorter == SeqsUpTo(S, n - 1)
       IN shorter \cup {Append(s, x) : s \in {t \in shorter : Len(t) = n - 1}, x \in S}

(* ------------------------------ the state ------------------------------ *)
VARIABLES
  pc,            \* where main() stands
  runs,          \* how many times the script has been started
  exit_code,     \* None while running, Some(status) once the process ended
  failed_stage,  \* 0, or the stage whose try block raised
  fault,         \* "", "raised" (I/O error or interrupt) or "data"
  companies_sj,  \* vacs.companies_sj: id -> row
  vacancies_sj,  \* vacs.vacancies_sj: id -> row
  sj_log,        \* vacs.sj_log: the exit_point column, in insertion order
  worker,        \* page -> "queued" | "running" | "done" | "failed"
  page_result,   \* page -> the list get_vacancies returned
  vacs_list,     \* the merged list
  df,            \* the deduplicated and filtered frame, in row order
  orgs_df,       \* id -> organization record
  vacs_df,       \* id -> vacancy record
  vacs_db_df,    \* id -> profession, of the rows read back as unmatched
  okpdtr_db_df,  \* the (id, name) rows read back, in result order
  match_list,    \* id -> None or <<name, score>>
  db0,           \* both tables as they were when the run began
  log0,          \* Len(sj_log) when the run began
  handed         \* id -> runs that matched it and completed the write-back

vars == << pc, runs, exit_code, failed_stage, fault, companies_sj, vacancies_sj,
           sj_log, worker, page_result, vacs_list, df, orgs_df, vacs_df,
           vacs_db_df, okpdtr_db_df, match_list, db0, log0, handed >>

transient == << worker, page_result, vacs_list, df, orgs_df, vacs_df,
                vacs_db_df, okpdtr_db_df, match_list >>

tables == << companies_sj, vacancies_sj >>

EmptyFn == [x \in {} |-> None]

\* a fresh process: nothing fetched or computed yet
FreshProcess ==
  /\ worker = [p \in Pages |-> "idle"]
  /\ page_result = [p \in Pages |-> <<>>]
  /\ vacs_list = <<>>
  /\ df = <<>>
  /\ orgs_df = EmptyFn
  /\ vacs_df = EmptyFn
  /\ vacs_db_df = EmptyFn
  /\ okpdtr_db_df = <<>>
  /\ match_list = EmptyFn

Init ==
  /\ pc = "connect"
  /\ runs = 1
  /\ exit_code = None
  /\ failed_stage = 0
  /\ fault = ""
  /\ companies_sj = EmptyFn
  /\ vacancies_sj = EmptyFn
  /\ sj_log = <<>>
  /\ FreshProcess
  /\ db0 = << EmptyFn, EmptyFn >>
  /\ log0 = 0
  /\ handed = EmptyFn

(* ------------------------- the except handlers ------------------------- *)
(* The handler of stage k (2..9): logger.exception, then the INSERT into    *)
(* vacs.sj_log in its own transaction, then sys.exit(k).  When the INSERT   *)
(* raises, the exception leaves the handler, sys.exit(k) is never reached   *)
(* and the interpreter ends with status 1.                                  *)
ExitStatusAfterHandler(k, logged) == IF logged THEN k ELSE 1

\* the exit_point the handler of stage k binds: ep=k
LogRowCopied(k) == IF k = 9 THEN 8 ELSE k
LogRow(k) == k

\* the process is gone: nothing of its memory is left
ProcessEnds ==
  /\ pc' = "exited"
  /\ worker' = [p \in Pages |-> "idle"]
  /\ page_result' = [p \in Pages |-> <<>>]
  /\ vacs_list' = <<>>
  /\ df' = <<>>
  /\ orgs_df' = EmptyFn
  /\ vacs_df' = EmptyFn
  /\ vacs_db_df' = EmptyFn
  /\ okpdtr_db_df' = <<>>
  /\ match_list' = EmptyFn

Handler(k, why) ==
  \E logged \in BOOLEAN :
    /\ ProcessEnds
    /\ failed_stage' = k
    /\ fault' = why
    /\ sj_log' = IF logged THEN Append(sj_log, LogRow(k)) ELSE sj_log
    /\ exit_code' = Some(ExitStatusAfterHandler(k, logged))

(* ------------------------- stage 1: DB connect ------------------------- *)
Connect ==
  /\ pc = "connect"
  /\ pc' = "credential"
  /\ UNCHANGED << runs, exit_code, failed_stage, fault, tables, sj_log,
                  transient, db0, log0, handed >>

\* no engine, so no run-log row: logger.exception and sys.exit(1)
ConnectFail ==
  /\ pc = "connect"
  /\ ProcessEnds
  /\ failed_stage' = 1
  /\ fault' = "raised"
  /\ exit_code' = Some(1)
  /\ UNCHANGED << runs, tables, sj_log, db0, log0, handed >>

(* ------------------------- stage 2: credential ------------------------- *)
Credential ==
  /\ pc = "credential"
  /\ pc' = "fetch"
  /\ worker' = [p \in Pages |-> "queued"]
  /\ UNCHANGED << runs, exit_code, failed_stage, fault, tables, sj_log,
                  page_result, vacs_list, df, orgs_df, vacs_df, vacs_db_df,
                  okpdtr_db_df, match_list, db0, log0, handed >>

CredentialFail ==
  /\ pc = "credential"
  /\ Handler(2, "raised")
  /\ UNCHANGED << runs, tables, db0, log0, handed >>

(* --------------------------- stage 3: fetch ---------------------------- *)
Running == {p \in Pages : worker[p] = "running"}

\* the pool takes the submitted calls in submission order, at most
\* max_workers at a time
WorkerStartUnbounded(p) ==
  /\ pc = "fetch"
  /\ worker[p] = "queued"
  /\ \A q \in Pages : q < p => worker[q] # "queued"
  /\ worker' = [worker EXCEPT ![p] = "running"]
  /\ UNCHANGED << pc, runs, exit_code, failed_stage, fault, tables, sj_log,
                  page_result, vacs_list, df, orgs_df, vacs_df, vacs_db_df,
                  okpdtr_db_df, match_list, db0, log0, handed >>
WorkerStart(p) ==
  /\ pc = "fetch"
  /\ worker[p] = "queued"
  /\ \A q \in Pages : q < p => worker[q] # "queued"
  /\ Cardinality(Running) < MaxWorkers
  /\ worker' = [worker EXCEPT ![p] = "running"]
  /\ UNCHANGED << pc, runs, exit_code, failed_stage, fault, tables, sj_log,
                  page_result, vacs_list, df, orgs_df, vacs_df, vacs_db_df,
                  okpdtr_db_df, match_list, db0, log0, handed >>

Fetched == SeqSum([i \in 1 .. NumPages |-> Len(page_result[i - 1])])

\* get_vacancies(page) returns the listings of all its HTTP calls
WorkerReturn(p, D, n) ==
  /\ pc = "fetch"
  /\ worker[p] = "running"
  /\ \E res \in SeqsUpTo(D, n - Fetched) :
       page_result' = [page_result EXCEPT ![p] = res]
  /\ worker' = [worker EXCEPT ![p] = "done"]
  /\ UNCHANGED << pc, runs, exit_code, failed_stage, fault, tables, sj_log,
                  vacs_list, df, orgs_df, vacs_df, vacs_db_df,
                  okpdtr_db_df, match_list, db0, log0, handed >>

\* an HTTP call or response.json()['objects'] raises: the future holds it
WorkerRaise(p) ==
  /\ pc = "fetch"
  /\ worker[p] = "running"
  /\ worker' = [worker EXCEPT ![p] = "failed"]
  /\ UNCHANGED << pc, runs, exit_code, failed_stage, fault, tables, sj_log,
                  page_result, vacs_list, df, orgs_df, vacs_df, vacs_db_df,
                  okpdtr_db_df, match_list, db0, log0, handed >>

AllFinished == \A p \in Pages : worker[p] \in {"done", "failed"}

\* the order in which as_completed yields futures that are all finished:
\* the iteration order of a set of Future objects, any order of the pages
MergeOrders == Perms(Pages)

\* vacs_list.extend(future.result()) over the futures in that order
Merged(order) == Flatten([i \in 1 .. NumPages |-> page_result[order[i]]])

\* DataFrame.drop_duplicates(subset=['id']): keep='first' is the default;
\* missing ids count as equal to each other
DropDuplicatesLast(rows) ==
  LET keep == {i \in 1 .. Len(rows) :
                 \A j \in (i + 1) .. Len(rows) : rows[j].id # rows[i].id}
      F[i \in 0 .. Len(rows)] ==
        IF i = 0 THEN <<>>
        ELSE IF i \in keep THEN Append(F[i - 1], rows[i]) ELSE F[i - 1]
  IN F[Len(rows)]
DropDuplicates(rows) ==
  LET keep == {i \in 1 .. Len(rows) :
                 \A j \in 1 .. (i - 1) : rows[j].id # rows[i].id}
      F[i \in 0 .. Len(rows)] ==
        IF i = 0 THEN <<>>
        ELSE IF i \in keep THEN Append(F[i - 1], rows[i]) ELSE F[i - 1]
  IN F[Len(rows)]

\* df[df.id_client != 0]
DropZeroClientKeepsAll(rows) == rows
DropZeroClient(rows) == SelectSeq(rows, LAMBDA r : r.id_client # 0)

\* df.dropna(subset=['id'])
DropNaId(rows) == SelectSeq(rows, LAMBDA r : ~IsNull(r.id))

\* lines 142-143, all futures finished: the merge
Merge ==
  /\ pc = "fetch"
  /\ \A p \in Pages : worker[p] = "done"
  /\ \E order \in MergeOrders : vacs_list' = Merged(order)
  /\ pc' = "dedup"
  /\ UNCHANGED << runs, exit_code, failed_stage, fault, tables, sj_log,
                  worker, page_result, df, orgs_df, vacs_df, vacs_db_df,
                  okpdtr_db_df, match_list, db0, log0, handed >>

\* future.result() re-raises the exception of a failed worker
FetchFailWorker ==
  /\ pc = "fetch"
  /\ AllFinished
  /\ \E p \in Pages : worker[p] = "failed"
  /\ Handler(3, "raised")
  /\ UNCHANGED << runs, tables, db0, log0, handed >>

\* line 144
Dedup ==
  /\ pc = "dedup"
  /\ vacs_list # <<>>
  /\ df' = DropDuplicates(vacs_list)
  /\ pc' = "filter"
  /\ UNCHANGED << runs, exit_code, failed_stage, fault, tables, sj_log,
                  worker, page_result, vacs_list, orgs_df, vacs_df, vacs_db_df,
                  okpdtr_db_df, match_list, db0, log0, handed >>

\* no listing at all: the frame has no columns, and df.id_client raises
FetchFailEmpty ==
  /\ pc = "dedup"
  /\ vacs_list = <<>>
  /\ Handler(3, "data")
  /\ UNCHANGED << runs, tables, db0, log0, handed >>

\* lines 145-146
Filter ==
  /\ pc = "filter"
  /\ df' = DropNaId(DropZeroClient(df))
  /\ pc' = "normalize"
  /\ UNCHANGED << runs, exit_code, failed_stage, fault, tables, sj_log,
                  worker, page_result, vacs_list, orgs_df, vacs_df, vacs_db_df,
                  okpdtr_db_df, match_list, db0, log0, handed >>

(* ------------------------- stage 4: normalize -------------------------- *)
\* pd.isnull(x) as the number Python compares with 0
IsNullNum(x) == IF IsNull(x) THEN 1 ELSE 0

\* lambda x: x if not pd.isnull(x) != 0 else None
\* "not" binds weaker than "!=": not (pd.isnull(x) != 0)
PaymentLambda(x) == IF ~(IsNullNum(x) # 0) THEN x ELSE None

\* orgs_df: client.get('id'), client.get('title'); dropna(subset=['id']);
\* drop_duplicates(subset=['id'], keep='last'); set_index('id')
OrgsFrame(rows) ==
  LET withId == SelectSeq(rows, LAMBDA r : ~IsNull(r.client.id))
      last(i) == CHOOSE k \in 1 .. Len(withId) :
                   /\ withId[k].client.id = Some(i)
                   /\ \A j \in (k + 1) .. Len(withId) : withId[j].client.id # Some(i)
  IN [i \in {withId[k].client.id[1] : k \in 1 .. Len(withId)} |->
        [name |-> withId[last(i)].client.title]]

\* vacs_df: the vacancy columns, id_mrigo, id_okpdtr = None; set_index('id')
VacsFrame(rows) ==
  LET row(i) == CHOOSE k \in 1 .. Len(rows) : rows[k].id = Some(i)
  IN [i \in {rows[k].id[1] : k \in 1 .. Len(rows)} |->
        [id_client    |-> rows[row(i)].id_client,
         profession   |-> rows[row(i)].profession,
         payment_from |-> PaymentLambda(rows[row(i)].payment_from),
         payment_to   |-> PaymentLambda(rows[row(i)].payment_to),
         id_mrigo     |-> ID_MRIGO,
         id_okpdtr    |-> None]]

\* pangres.upsert(if_row_exists='ignore'): INSERT .. ON CONFLICT DO NOTHING
UpsertIgnoreOverwrites(table, frame) ==
  [i \in DOMAIN table \cup DOMAIN frame |->
     IF i \in DOMAIN frame THEN frame[i] ELSE table[i]]
UpsertIgnore(table, frame) ==
  [i \in DOMAIN table \cup DOMAIN frame |->
     IF i \in DOMAIN table THEN table[i] ELSE frame[i]]

Normalize ==
  /\ pc = "normalize"
  /\ orgs_df' = OrgsFrame(df)
  /\ vacs_df' = VacsFrame(df)
  /\ pc' = "upsert_orgs"
  /\ UNCHANGED << runs, exit_code, failed_stage, fault, tables, sj_log,
                  worker, page_result, vacs_list, df, vacs_db_df,
                  okpdtr_db_df, match_list, db0, log0, handed >>

\* the try block raises while the frames are built
NormalizeFailAfterOrgs ==
  /\ pc = "normalize"
  /\ companies_sj' = UpsertIgnore(companies_sj, OrgsFrame(df))
  /\ Handler(4, "raised")
  /\ UNCHANGED << runs, vacancies_sj, db0, log0, handed >>
NormalizeFail ==
  /\ pc = "normalize"
  /\ Handler(4, "raised")
  /\ UNCHANGED << runs, tables, db0, log0, handed >>

(* ------------------- stage 5: organization upsert ---------------------- *)
UpsertOrgs ==
  /\ pc = "upsert_orgs"
  /\ companies_sj' = UpsertIgnore(companies_sj, orgs_df)
  /\ pc' = "upsert_vacs"
  /\ UNCHANGED << runs, exit_code, failed_stage, fault, vacancies_sj, sj_log,
                  transient, db0, log0, handed >>

UpsertOrgsFail ==
  /\ pc = "upsert_orgs"
  /\ Handler(5, "raised")
  /\ UNCHANGED << runs, tables, db0, log0, handed >>

(* --------------------- stage 6: vacancy upsert ------------------------- *)
\* a row inserted by the upsert: is_matched takes the column default
InsertedRow(new) ==
  [id_client |-> new.id_client, profession |-> new.profession,
   payment_from |-> new.payment_from, payment_to |-> new.payment_to,
   id_mrigo |-> new.id_mrigo, id_okpdtr |-> new.id_okpdtr,
   is_matched |-> FALSE]

\* ON CONFLICT (id) DO UPDATE SET <every column of the frame> = EXCLUDED.<column>
UpdatedRow(old, new) ==
  [old EXCEPT !.id_client = new.id_client, !.profession = new.profession,
              !.payment_from = new.payment_from, !.payment_to = new.payment_to,
              !.id_mrigo = new.id_mrigo, !.id_okpdtr = new.id_okpdtr]

\* pangres.upsert(if_row_exists='update')
UpsertUpdate(table, frame) ==
  [i \in DOMAIN table \cup DOMAIN frame |->
     IF i \notin DOMAIN frame THEN table[i]
     ELSE IF i \in DOMAIN table THEN UpdatedRow(table[i], frame[i])
     ELSE InsertedRow(frame[i])]

\* the upsert, then lines 263-268: the three frames are dropped
UpsertVacs ==
  /\ pc = "upsert_vacs"
  /\ vacancies_sj' = UpsertUpdate(vacancies_sj, vacs_df)
  /\ df' = <<>>
  /\ orgs_df' = EmptyFn
  /\ vacs_df' = EmptyFn
  /\ pc' = "readback"
  /\ UNCHANGED << runs, exit_code, failed_stage, fault, companies_sj, sj_log,
                  worker, page_result, vacs_list, vacs_db_df, okpdtr_db_df,
                  match_list, db0, log0, handed >>

UpsertVacsFail ==
  /\ pc = "upsert_vacs"
  /\ Handler(6, "raised")
  /\ UNCHANGED << runs, tables, db0, log0, handed >>

(* ------------------------- stage 7: read-back -------------------------- *)
\* select id, profession from vacs.vacancies_sj where is_matched = false
Unmatched(table) ==
  [i \in {j \in DOMAIN table : table[j].is_matched = FALSE} |-> table[i].profession]

\* select id, name from data.okpdtr where code != '_'
Eligible == {[id |-> e.id, name |-> e.name] : e \in {x \in okpdtr : x.code # "_"}}

ReadBack ==
  /\ pc = "readback"
  /\ vacs_db_df' = Unmatched(vacancies_sj)
  /\ okpdtr_db_df' \in Perms(Eligible)
  /\ pc' = "match"
  /\ UNCHANGED << runs, exit_code, failed_stage, fault, tables, sj_log,
                  worker, page_result, vacs_list, df, orgs_df, vacs_df,
                  match_list, db0, log0, handed >>

ReadBackFail ==
  /\ pc = "readback"
  /\ Handler(7, "raised")
  /\ UNCHANGED << runs, tables, db0, log0, handed >>

(* -------------------------- stage 8: matching -------------------------- *)
\* okpdtr_db_df.set_index('name').to_dict()['id']: the last id of each name
OkpdtrDict(rows) ==
  [n \in {rows[k].name : k \in 1 .. Len(rows)} |->
     rows[CHOOSE k \in 1 .. Len(rows) :
            /\ rows[k].name = n
            /\ \A j \in (k + 1) .. Len(rows) : rows[j].name # n].id]

\* okpdtr_dict.keys(): the names in the order of their first row
OkpdtrKeys(rows) ==
  LET first == {k \in 1 .. Len(rows) : \A j \in 1 .. (k - 1) : rows[j].name # rows[k].name}
      F[i \in 0 .. Len(rows)] ==
        IF i = 0 THEN <<>>
        ELSE IF i \in first THEN Append(F[i - 1], rows[i].name) ELSE F[i - 1]
  IN F[Len(rows)]

\* match_list: (key, process.extractOne(value, okpdtr_dict.keys(), ...))
MatchList(vacs_dict, rows) ==
  [i \in DOMAIN vacs_dict |->
     extractOne(vacs_dict[i], OkpdtrKeys(rows), SIMILARITY_LEVEL_OKPDTR)]

Match ==
  /\ pc = "match"
  /\ match_list' = MatchList(vacs_db_df, okpdtr_db_df)
  /\ pc' = "writeback"
  /\ UNCHANGED << runs, exit_code, failed_stage, fault, tables, sj_log,
                  worker, page_result, vacs_list, df, orgs_df, vacs_df,
                  vacs_db_df, okpdtr_db_df, db0, log0, handed >>

MatchFail ==
  /\ pc = "match"
  /\ Handler(8, "raised")
  /\ UNCHANGED << runs, tables, db0, log0, handed >>

(* ------------------------- stage 9: write-back ------------------------- *)
\* match_df after lines 305-309: vacancy id -> okpdtr_dict[name]
MatchDict(matches, rows) ==
  [i \in {j \in DOMAIN matches : matches[j] # None} |->
     OkpdtrDict(rows)[matches[i][1]]]

\* UPDATE vacs.vacancies_sj SET id_okpdtr = :value WHERE id = :key
SetCodes(table, codes) ==
  [i \in DOMAIN table |->
     IF i \in DOMAIN codes THEN [table[i] EXCEPT !.id_okpdtr = Some(codes[i])]
     ELSE table[i]]

\* the ids of the second transaction: vacs_dict.keys()
FlaggedIdsMatchedOnly(vacs_dict, matches) == {i \in DOMAIN vacs_dict : matches[i] # None}
FlaggedIds(vacs_dict, matches) == DOMAIN vacs_dict

\* UPDATE vacs.vacancies_sj SET is_matched = true WHERE id = :key
SetFlags(table, ids) ==
  [i \in DOMAIN table |->
     IF i \in ids THEN [table[i] EXCEPT !.is_matched = TRUE] ELSE table[i]]

Count(h, i) == IF i \in DOMAIN h THEN h[i] ELSE 0

WriteBack ==
  /\ pc = "writeback"
  /\ DOMAIN match_list # {}
  /\ vacancies_sj' =
       SetFlags(SetCodes(vacancies_sj, MatchDict(match_list, okpdtr_db_df)),
                FlaggedIds(vacs_db_df, match_list))
  /\ handed' = [i \in DOMAIN handed \cup DOMAIN vacs_db_df |->
                  IF i \in DOMAIN vacs_db_df THEN Count(handed, i) + 1
                  ELSE handed[i]]
  /\ pc' = "success"
  /\ UNCHANGED << runs, exit_code, failed_stage, fault, companies_sj, sj_log,
                  transient, db0, log0 >>

\* match_list is empty: pd.DataFrame([]) has no column 0, set_index(0) raises
WriteBackFailEmpty ==
  /\ pc = "writeback"
  /\ DOMAIN match_list = {}
  /\ Handler(9, "data")
  /\ UNCHANGED << runs, tables, db0, log0, handed >>

\* the first transaction raises and is rolled back
WriteBackFailCodes ==
  /\ pc = "writeback"
  /\ DOMAIN match_list # {}
  /\ Handler(9, "raised")
  /\ UNCHANGED << runs, tables, db0, log0, handed >>

\* the first transaction has committed, the second raises and is rolled back
WriteBackFailFlags ==
  /\ pc = "writeback"
  /\ DOMAIN match_list # {}
  /\ vacancies_sj' = SetCodes(vacancies_sj, MatchDict(match_list, okpdtr_db_df))
  /\ Handler(9, "raised")
  /\ UNCHANGED << runs, companies_sj, db0, log0, handed >>

(* --------------------------- the success row --------------------------- *)
LogSuccess ==
  /\ pc = "success"
  /\ sj_log' = Append(sj_log, 0)
  /\ exit_code' = Some(0)
  /\ ProcessEnds
  /\ UNCHANGED << runs, failed_stage, fault, tables, db0, log0, handed >>

\* the INSERT raises outside any try block: traceback, status 1
LogSuccessFail ==
  /\ pc = "success"
  /\ exit_code' = Some(1)
  /\ fault' = "raised"
  /\ ProcessEnds
  /\ UNCHANGED << runs, failed_stage, tables, sj_log, db0, log0, handed >>

(* ------------------------ the job is started again --------------------- *)
Restart ==
  /\ pc = "exited"
  /\ runs < MaxRuns
  /\ runs' = runs + 1
  /\ pc' = "connect"
  /\ exit_code' = None
  /\ failed_stage' = 0
  /\ fault' = ""
  /\ db0' = tables
  /\ log0' = Len(sj_log)
  /\ UNCHANGED << tables, sj_log, transient, handed >>

NextOver(D, n) ==
  \/ Connect \/ ConnectFail
  \/ Credential \/ CredentialFail
  \/ \E p \in Pages : WorkerStart(p)
  \/ \E p \in Pages : WorkerReturn(p, D, n)
  \/ \E p \in Pages : WorkerRaise(p)
  \/ Merge \/ FetchFailWorker
  \/ Dedup \/ FetchFailEmpty
  \/ Filter
  \/ Normalize \/ NormalizeFail
  \/ UpsertOrgs \/ UpsertOrgsFail
  \/ UpsertVacs \/ UpsertVacsFail
  \/ ReadBack \/ ReadBackFail
  \/ Match \/ MatchFail
  \/ WriteBack \/ WriteBackFailEmpty \/ WriteBackFailCodes \/ WriteBackFailFlags
  \/ LogSuccess \/ LogSuccessFail

Next == NextOver(Listings, MaxListings) \/ Restart

Spec == Init /\ [][Next]_vars

\* one run over listings with duplicate ids
NextDedup == NextOver(ListingsDedup, MaxBatch)

SpecDedup == Init /\ [][NextDedup]_vars

\* one run over listings with all payment bounds
NextPay == NextOver(ListingsPay, MaxListings)

SpecPay == Init /\ [][NextPay]_vars

\* one run over listings with all professions
NextMatch == NextOver(ListingsMatch, MaxBatch)

SpecMatch == Init /\ [][NextMatch]_vars

(***************************************************************************)
(*                              Properties                                 *)
(***************************************************************************)
Appended == Len(sj_log) - log0

\* the stage whose try block main() is in
StageOf(p) ==
  CASE p = "connect" -> 1
    [] p = "credential" -> 2
    [] p \in {"fetch", "dedup", "filter"} -> 3
    [] p = "normalize" -> 4
    [] p = "upsert_orgs" -> 5
    [] p = "upsert_vacs" -> 6
    [] p = "readback" -> 7
    [] p = "match" -> 8
    [] p = "writeback" -> 9
    [] OTHER -> 0

\* C1 (as claimed): the vacancy upsert leaves id_okpdtr and is_matched of
\* every row that already exists as they were.
C1_UpsertKeepsCodeAndFlag ==
  [][ (pc = "upsert_vacs" /\ pc' = "readback") =>
        \A i \in DOMAIN vacancies_sj :
          /\ vacancies_sj'[i].id_okpdtr = vacancies_sj[i].id_okpdtr
          /\ vacancies_sj'[i].is_matched = vacancies_sj[i].is_matched ]_vars

Occurrences(rows, id) == {k \in 1 .. Len(rows) : rows[k].id = id}

SetMin(S) == CHOOSE x \in S : \A y \in S : x <= y

SetMax(S) == CHOOSE x \in S : \A y \in S : x >= y

\* C2 (amended): after drop_duplicates, every id that occurs more than once
\* in the merged list has exactly one row in the frame, and that row is the
\* first listing with the id in the merged list.
C2_FirstOccurrenceSurvives ==
  pc = "filter" =>
    \A k \in 1 .. Len(vacs_list) :
      LET occ == Occurrences(vacs_list, vacs_list[k].id)
          kept == Occurrences(df, vacs_list[k].id)
      IN Cardinality(occ) > 1 =>
           /\ Cardinality(kept) = 1
           /\ \A m \in kept : df[m] = vacs_list[SetMin(occ)]

\* C2 (as claimed): ... and that row is the last listing with the id.
C2_LastOccurrenceSurvives ==
  pc = "filter" =>
    \A k \in 1 .. Len(vacs_list) :
      LET occ == Occurrences(vacs_list, vacs_list[k].id)
          kept == Occurrences(df, vacs_list[k].id)
      IN Cardinality(occ) > 1 =>
           /\ Cardinality(kept) = 1
           /\ \A m \in kept : df[m] = vacs_list[SetMax(occ)]

\* two different listings share an id, and the deduplication has run
C2_Witness ==
  /\ pc = "filter"
  /\ \E j, k \in 1 .. Len(vacs_list) :
       /\ j < k
       /\ vacs_list[j].id = vacs_list[k].id
       /\ vacs_list[j] # vacs_list[k]
       /\ Len(df) = 1

\* C3 (as claimed): the deduplicated and filtered listing set is the same
\* for every order in which the page results are merged.
C3_MergeOrderIrrelevant ==
  pc = "normalize" =>
    \A order \in Perms(Pages) :
      Range(df) = Range(DropNaId(DropZeroClient(DropDuplicates(Merged(order)))))

\* C4 (as claimed): a payment bound of 0 or null is normalized to null, any
\* other value to itself.
C4_ZeroPaymentBecomesNull ==
  pc = "upsert_orgs" =>
    \A k \in 1 .. Len(df) :
      LET raw == df[k]
          row == vacs_df[raw.id[1]]
          want(x) == IF x = None \/ x = Some(0) THEN None ELSE x
      IN /\ row.payment_from = want(raw.payment_from)
         /\ row.payment_to = want(raw.payment_to)

\* C5 (as claimed): a stage that fails ends the process at once, with the
\* exit status of that stage, 1..9 in stage order.
C5_FailureExitsWithStageCode ==
  [][ (failed_stage = 0 /\ failed_stage' # 0) =>
        /\ pc' = "exited"
        /\ failed_stage' = StageOf(pc)
        /\ failed_stage' \in 1 .. 9
        /\ exit_code' = Some(StageOf(pc)) ]_vars

\* C6 (as claimed): when the handler of a failed stage 2..9 cannot insert
\* its run-log row, the process still ends with the status of that stage.
C6_LogFailureKeepsExitCode ==
  (pc = "exited" /\ failed_stage \in 2 .. 9 /\ Appended = 0) =>
    exit_code = Some(failed_stage)

\* C7: once the write-back has succeeded, every vacancy read back as
\* unmatched is flagged matched, with or without a code; and no vacancy is
\* matched in more than one run that completes its write-back.
C7_ProcessedAreFlagged ==
  /\ pc = "success" => \A i \in DOMAIN vacs_db_df : vacancies_sj[i].is_matched
  /\ \A i \in DOMAIN handed : handed[i] <= 1

\* a second run completes its write-back for a vacancy without a match,
\* next to a vacancy that the first run had processed
C7_Witness ==
  /\ pc = "success"
  /\ runs = 2
  /\ \E i \in DOMAIN vacs_db_df :
       /\ match_list[i] = None
       /\ vacancies_sj[i].id_okpdtr = None
       /\ vacancies_sj[i].is_matched
  /\ \E j \in DOMAIN handed \ DOMAIN vacs_db_df : handed[j] = 1

Score(q, e) == token_set_ratio(q, e.name)

\* the eligible entries with the highest score for profession q
Top(q) == {e \in Eligible : \A f \in Eligible : ScoreGE(Score(q, e), Score(q, f))}

Reaches75(sc) == 100 * sc[1] >= 75 * sc[2]

\* C8: after the write-back a processed vacancy has a code exactly when the
\* best score of its profession over the eligible names is at least 75; the
\* code is the id of an entry with the best score; and two vacancies of one
\* run with the same profession get the same code.
C8_CodeIffBestScoreReaches75 ==
  pc = "success" =>
    \A i \in DOMAIN vacs_db_df :
      LET q == vacs_db_df[i]
          code == vacancies_sj[i].id_okpdtr
      IN /\ (code # None) <=> (\E e \in Eligible : Reaches75(Score(q, e)))
         /\ code # None => \E e \in Top(q) : code = Some(e.id)
         /\ \A j \in DOMAIN vacs_db_df :
              vacs_db_df[j] = q => vacancies_sj[j].id_okpdtr = code

\* one vacancy whose best score is exactly 75 has its code, another has none
C8_Witness ==
  /\ pc = "success"
  /\ \E i \in DOMAIN vacs_db_df :
       /\ \E e \in Top(vacs_db_df[i]) :
            100 * Score(vacs_db_df[i], e)[1] = 75 * Score(vacs_db_df[i], e)[2]
       /\ vacancies_sj[i].id_okpdtr # None
  /\ \E j \in DOMAIN vacs_db_df : vacancies_sj[j].id_okpdtr = None

\* C9 (as claimed): whichever stage fails, both tables are as they were
\* when the run began.
C9_NoWriteSurvivesAFailure ==
  (pc = "exited" /\ failed_stage # 0) => tables = db0

\* C9 (amended): a failure of the connect, credential, fetch or
\* normalization stage leaves both tables as they were when the run began.
C9_EarlyFailureLeavesTables ==
  (pc = "exited" /\ failed_stage \in 1 .. 4) => tables = db0

\* the normalization of a second run fails over tables the first run filled
C9_Witness ==
  /\ pc = "exited"
  /\ failed_stage = 4
  /\ runs = 2
  /\ DOMAIN vacancies_sj # {}
  /\ DOMAIN companies_sj # {}

\* C10 (as claimed): every run that has ended appended exactly one row, 0
\* after a success and the number of the failed stage otherwise.
C10_ExactlyOneRowPerRun ==
  pc = "exited" =>
    /\ Appended = 1
    /\ sj_log[Len(sj_log)] = failed_stage

\* C10 (amended): a run appends at most one row; ending with status 0 it
\* has appended the row 0, ending with status 2..9 it has appended the row
\* of the stage that failed; ending with status 1 (a DB-connect failure, or
\* a run-log INSERT that raised) it has appended none.
C10_AtMostOneRowPerRun ==
  pc = "exited" =>
    /\ Appended \in {0, 1}
    /\ Appended = 1 => sj_log[Len(sj_log)] = failed_stage
    /\ failed_stage = 1 => Appended = 0
    /\ exit_code = Some(0) => (Appended = 1 /\ failed_stage = 0)
    /\ exit_code = Some(1) => Appended = 0
    /\ \A k \in 2 .. 9 :
         exit_code = Some(k) => (Appended = 1 /\ failed_stage = k)

\* a second run cannot connect, after a first run that wrote its row
C10_Witness ==
  /\ pc = "exited"
  /\ runs = 2
  /\ failed_stage = 1
  /\ log0 = 1
  /\ Appended = 0

\* C11 (as claimed): once a page worker has failed, it is not started
\* again, nothing is merged, normalized or written to the tables, and the
\* process ends with status 3.
C11_FailedCallAbortsWithCode3 ==
  [][ (pc = "fetch" /\ \E p \in Pages : worker[p] = "failed") =>
        /\ \A p \in Pages :
             worker[p] = "failed" => worker'[p] \in {"failed", "idle"}
        /\ pc' \in {"fetch", "exited"}
        /\ vacs_list' = <<>>
        /\ tables' = tables
        /\ exit_code' # None => exit_code' = Some(3) ]_vars

\* C12: never more than max_workers page workers run at once; while the
\* fetch is under way the shared list is empty and a page that has not been
\* started has no result; the merge happens only when all five workers are
\* done, and the merged list holds the result of every page exactly once.
C12_PoolBoundAndBarrier ==
  /\ Cardinality(Running) <= MaxWorkers
  /\ pc = "fetch" =>
       /\ vacs_list = <<>>
       /\ \A p \in Pages : worker[p] = "queued" => page_result[p] = <<>>
  /\ pc \notin {"connect", "credential", "fetch", "exited"} =>
       \A p \in Pages : worker[p] = "done"
  /\ pc = "dedup" => \E order \in Perms(Pages) : vacs_list = Merged(order)

\* the pool is full with the last page, the first page is done and has
\* returned a listing, and the shared list is still empty
C12_Witness ==
  /\ pc = "fetch"
  /\ Cardinality(Running) = MaxWorkers
  /\ worker[NumPages - 1] = "running"
  /\ \E p \in Pages : worker[p] = "done" /\ page_result[p] # <<>>
  /\ vacs_list = <<>>

\* C13: no step of any run removes or changes a row that the companies
\* table already holds.
C13_ExistingOrganizationsUntouched ==
  [][ \A i \in DOMAIN companies_sj :
        /\ i \in DOMAIN companies_sj'
        /\ companies_sj'[i] = companies_sj[i] ]_vars

\* the organization upsert of a second run has run with a record that
\* differs from the row stored by the first run
C13_Witness ==
  /\ pc = "upsert_vacs"
  /\ runs = 2
  /\ \E i \in DOMAIN orgs_df \cap DOMAIN db0[1] :
       /\ orgs_df[i] # db0[1][i]
       /\ companies_sj[i] = db0[1][i]

\* C14: when the normalization has completed, no row of the vacancy frame
\* has id_client 0, no listing behind it has a null id, and no two of them
\* share an id: the frame has one row for each listing of df.
C14_NormalizedVacanciesAreClean ==
  pc = "upsert_orgs" =>
    /\ \A k \in 1 .. Len(df) : df[k].id_client # 0 /\ ~IsNull(df[k].id)
    /\ \A j, k \in 1 .. Len(df) : j # k => df[j].id # df[k].id
    /\ DOMAIN vacs_df = {df[k].id[1] : k \in 1 .. Len(df)}
    /\ Cardinality(DOMAIN vacs_df) = Len(df)
    /\ \A i \in DOMAIN vacs_df : vacs_df[i].id_client # 0

\* the merged list held a listing of no organization, or without id, or a
\* duplicate, and the normalization has completed with one vacancy
C14_Witness ==
  /\ pc = "upsert_orgs"
  /\ Len(vacs_list) = 2
  /\ Len(df) = 1
  /\ Cardinality(DOMAIN vacs_df) = 1

\* C15 (as claimed): a run in which nothing raised an I/O error (the
\* connection, the credential, every HTTP call and every SQL statement
\* succeeded) ends with status 0 and the success row.
C15_FaultFreeRunSucceeds ==
  (pc = "exited" /\ fault # "raised" /\ (failed_stage # 0 => Appended = 1)) =>
    /\ exit_code = Some(0)
    /\ Appended = 1
    /\ sj_log[Len(sj_log)] = 0

\* C16 (as claimed): when a run has ended, every vacancy with a code is
\* flagged matched.
C16_CodeImpliesMatchedAtExit ==
  pc = "exited" =>
    \A i \in DOMAIN vacancies_sj :
      vacancies_sj[i].id_okpdtr # None => vacancies_sj[i].is_matched

=============================================================================
